---- MODULE Spec2Model ----
(***************************************************************************)
(* Verification model of the med_study React client.                       *)
(*                                                                         *)
(* The browser runs one event loop: a click handler, an effect, a timer    *)
(* callback or the continuation of an awaited request runs to completion   *)
(* before the next one starts, and React re-renders in between.  Every     *)
(* action below is therefore one such run, followed by the re-render and   *)
(* the mount / unmount effects the re-render causes (operator Commit).     *)
(* Requests that are awaited stay in a set of in-flight requests until     *)
(* the action that models their continuation takes them out.  The state    *)
(* setters of an unmounted component do nothing, so a request that was     *)
(* issued by an instance that is gone is kept without its identity: two    *)
(* such requests of the same kind in the same phase are one element.       *)
(*                                                                         *)
(* The module holds several specifications over one set of variables:      *)
(*   SpecApp       App.jsx (routing, auth check, 401 interceptor) with     *)
(*                 the study session page                                  *)
(*   SpecQuizLoad  the study session page's hand-over to the quiz page     *)
(*                 and the quiz page's load effect                         *)
(*   SpecUpload    the polling of processing jobs on the upload page       *)
(*   SpecDash      the dashboard page (upload, regenerate, cancel)         *)
(*   SpecQuiz      the quiz page's preview / answering / results flow      *)
(***************************************************************************)
EXTENDS Integers, Sequences, FiniteSets, TLC

\* ---------------------------------------------------------------- bounds
MaxQuizFetch == 2   \* runs of fetchQuiz of one Quiz instance in flight at once
MaxJobs == 2        \* PDF processing tasks the backend is given
MaxTicks == 2       \* callbacks of the polling interval awaiting their requests
MaxDashReq == 3     \* upload / regenerate requests the dashboard sends
MaxQuestions == 2   \* questions of a quiz set
NumOptions == 2     \* answer options of a question (the source shows 4)
MaxSaves == 2       \* save-quiz-answers timers and requests pending at once
MaxListReq == 1     \* star-all / unstar-all requests in flight at once
MaxSets == 2        \* study sets of the user
MaxHomeReq == 2     \* delete / title requests of the Home page in flight

VARIABLES
  \* App.jsx
  isAuthenticated,   \* useState(false)
  isLoading,         \* useState(true): the initial auth check is running
  summary,           \* useState(''): "" or a non-empty summary text
  path,              \* location of the router
  page,              \* the component the last render left mounted
  ssNumQuestions,    \* sessionStorage item 'numQuestions' (a string, or null)
  storedCount,       \* history: the count goToQuiz stored last, 0 if none is stored
  \* Study_session.jsx (state of the mounted instance)
  isUploading,       \* useState(false)
  hasInput,          \* selectedPdfHashes.length > 0 || userText.trim()
  numQuestions,      \* useState(5)
  abortCurrent,      \* abortController.current: 0 is null, 1 the controller
                     \* of the instance's last generateSummary
  net,               \* requests in flight (other than the quiz fetches)
  \* Quiz.jsx, the load effect
  questions,         \* useState([]): the ids of the questions
  quizIsLoading,     \* useState(true)
  quizError,         \* useState('')
  isFetching,        \* isFetching.current
  quizFetches,       \* runs of fetchQuiz that have not finished
  \* Upload_pdfs.jsx
  uploadMounted,     \* the Upload_pdfs instance is mounted
  processingJobs,    \* useState([]): sequence of [id, status]
  interval,          \* the polling effect has an interval timer running
  ticks,             \* interval callbacks awaiting Promise.all
  tasksPending,      \* fetchInitialTasks awaits GET /api/get-user-tasks
  uploadPending,     \* handleUploadFiles awaits its upload requests
  clearPending,      \* handleClearCompletedTasks awaits its request
  backendStatus,     \* the backend: status of each task, "none" before it exists
  \* Dashboard.jsx
  dashMounted,       \* the Dashboard instance is mounted
  dashSummary,       \* the summary prop (App state): <<>> is ''
  dashIsUploading,   \* useState(false)
  dashHasInput,      \* files.length > 0 || userText.trim()
  dashAbort,         \* abortController.current: 0 is null, else the number of
                     \* the request whose controller it is
  dashNet,           \* upload-multiple / regenerate-summary requests in flight
  dashNext,          \* number of the next request
  \* Home.jsx
  homeMounted,       \* the Home instance is mounted
  sets,              \* useState([]): sequence of [hash, title]
  homeIsLoading,     \* useState(true)
  editingSetHash,    \* useState(null): 0 is null
  editingTitle,      \* useState('')
  isDeleteMode,      \* useState(false)
  deletingSetHash,   \* useState(null): 0 is null
  homeNet,           \* get-question-sets, update-set-title and
                     \* delete-question-set requests in flight
  backendSets,       \* the backend: title of each set, "none" when deleted
  \* Quiz.jsx, the quiz flow
  currentQuestion,   \* useState(0): index into questions, from 0
  selectedAnswers,   \* useState({}): question id -> option, 0 is undefined
  submittedAnswers,  \* useState({}): question id -> true
  showResults,       \* useState(false)
  isPreviewing,      \* useState(true)
  isQuizMode,        \* useState(false), set from the session storage on mount
  hotkey,            \* what the callback of the number hotkeys captured:
                     \* questions, currentQuestion, selectedAnswers, submittedAnswers
  isGeneratingMoreQuestions,  \* useState(false)
  listNet,           \* star-all-questions and additional generate-quiz requests
                     \* in flight
  answersSent,       \* history: since submittedAnswers last changed, a
                     \* save-quiz-answers request carried all of them
  saveTimers,        \* setTimeout(() => saveUserAnswers(), 100) not yet fired
  flowNet            \* requests of the quiz flow in flight

appVars == <<isAuthenticated, isLoading, summary, path, page, ssNumQuestions,
             storedCount, isUploading, hasInput, numQuestions, abortCurrent,
             net, questions, quizIsLoading, quizError, isFetching, quizFetches>>

uploadVars == <<uploadMounted, processingJobs, interval, ticks, tasksPending,
                uploadPending, clearPending, backendStatus>>

dashVars == <<dashMounted, dashSummary, dashIsUploading, dashHasInput,
              dashAbort, dashNet, dashNext>>

flowVars == <<currentQuestion, selectedAnswers, submittedAnswers, showResults,
              isPreviewing, isQuizMode, hotkey, answersSent, saveTimers, flowNet,
             isGeneratingMoreQuestions, listNet>>

\* The App and Study_session part of appVars.
appCore == <<isAuthenticated, isLoading, summary, path, page, ssNumQuestions,
             storedCount, isUploading, hasInput, numQuestions, abortCurrent,
             net, isFetching, quizFetches>>

homeVars == <<homeMounted, sets, homeIsLoading, editingSetHash, editingTitle,
              isDeleteMode, deletingSetHash, homeNet, backendSets>>

vars == <<appVars, uploadVars, dashVars, flowVars, homeVars>>

\* ---------------------------------------------------------------- strings
\* A string is a sequence of one-character strings.
Digits == <<"0", "1", "2", "3", "4", "5", "6", "7", "8", "9">>
IsDigit(c) == \E i \in 1..10 : Digits[i] = c
DigitValue(c) == (CHOOSE i \in 1..10 : Digits[i] = c) - 1

\* sessionStorage.getItem of a missing key is null, which parseInt reads as
\* the string "null".
Null == <<"n", "u", "l", "l">>
\* A parsed number is <<n>>; NaN is the empty tuple.
NaN == <<>>

\* Number.prototype.toString for an integer.
RECURSIVE NatToString(_)
NatToString(n) ==
  IF n < 10 THEN <<Digits[n + 1]>>
  ELSE NatToString(n \div 10) \o <<Digits[(n % 10) + 1]>>

NumberToString(n) == IF n < 0 THEN <<"-">> \o NatToString(0 - n) ELSE NatToString(n)

\* The value of the longest prefix of digits of str, after acc.
RECURSIVE DigitPrefix(_, _, _)
DigitPrefix(str, acc, seen) ==
  IF str # <<>> /\ IsDigit(Head(str))
  THEN DigitPrefix(Tail(str), 10 * acc + DigitValue(Head(str)), TRUE)
  ELSE IF seen THEN <<acc>> ELSE NaN

\* parseInt(str): an optional sign, then digits up to the first other
\* character; NaN when there is no digit.
ParseInt(str) ==
  IF str # <<>> /\ Head(str) \in {"-", "+"}
  THEN LET v == DigitPrefix(Tail(str), 0, FALSE)
       IN IF v = NaN THEN NaN ELSE IF Head(str) = "-" THEN <<0 - v[1]>> ELSE v
  ELSE DigitPrefix(str, 0, FALSE)

\* x || d for a number x: d when x is NaN or 0.
OrDefault(x, d) == IF x = NaN THEN d ELSE IF x[1] = 0 THEN d ELSE x[1]

Min(a, b) == IF a < b THEN a ELSE b
Max(a, b) == IF a > b THEN a ELSE b

\* ------------------------------------------------------------ App routing
Paths == {"/login", "/", "/study_session", "/quiz", "/upload_pdfs",
          "/signup", "/other"}
ProtectedPages == {"Home", "Study_session", "Quiz", "Upload_pdfs"}
Summaries == {"", "text"}

RouteElementNoGuard(p, auth) ==
  CASE p = "/login"         -> IF auth THEN "/" ELSE "Login"
    [] p = "/"              -> IF auth THEN "Home" ELSE "/login"
    [] p = "/study_session" -> IF auth THEN "Study_session" ELSE "/login"
    [] p = "/quiz"          -> "Quiz"
    [] p = "/upload_pdfs"   -> IF auth THEN "Upload_pdfs" ELSE "/login"
    [] p = "/signup"        -> "Signup"
    [] OTHER                -> IF auth THEN "/" ELSE "/login"

\* The element of the <Route> that matches path p: a page, or a <Navigate>
\* (written as the path it navigates to).
RouteElement(p, auth) ==
  CASE p = "/login"         -> IF auth THEN "/" ELSE "Login"
    [] p = "/"              -> IF auth THEN "Home" ELSE "/login"
    [] p = "/study_session" -> IF auth THEN "Study_session" ELSE "/login"
    [] p = "/quiz"          -> IF auth THEN "Quiz" ELSE "/login"
    [] p = "/upload_pdfs"   -> IF auth THEN "Upload_pdfs" ELSE "/login"
    [] p = "/signup"        -> "Signup"
    [] OTHER                -> IF auth THEN "/" ELSE "/login"

\* <Navigate replace> is followed until a page is rendered.
RECURSIVE ResolvePath(_, _)
ResolvePath(p, auth) ==
  IF RouteElement(p, auth) \in Paths THEN ResolvePath(RouteElement(p, auth), auth)
  ELSE p

\* What App renders: the spinner while isLoading, else the routed page.
RenderedPage(load, auth, p) ==
  IF load THEN "Loading" ELSE RouteElement(ResolvePath(p, auth), auth)


\* -------------------------------------------------------------- requests
FetchApis == {"generate-summary", "regenerate-summary"}

\* live: the Study_session instance that issued the request is mounted;
\* aborted: abort() was called on the controller whose signal it carries.
Req(api, live, ph) == [api |-> api, live |-> live, aborted |-> FALSE, phase |-> ph]

\* A run of fetchQuiz: live while the Quiz instance that started it is
\* mounted (id numbers the live runs); got is the answer of its get-quiz
\* request (existingResponse) and num the numQuestions of its generate-quiz
\* request.
NoResponse == [success |-> FALSE, count |-> 0]
QuizFetch(id) == [id |-> id, live |-> TRUE, phase |-> "get", got |-> NoResponse,
                  num |-> 0]

\* The questions GET /api/get-quiz returns (count of them), and the ones
\* POST /api/generate-quiz returns.
ExistingQuestions(count) == [i \in 1..count |-> i]
GeneratedQuestions == <<3, 4>>

\* Fetch requests of the study session page whose HTTP exchange is running.
InFlightSummaryRequests ==
  {r \in net : r.api \in FetchApis /\ r.phase \in {"sent", "streaming"}
               /\ ~r.aborted}

\* The state the running handler has set, before the re-render.
CurA == [auth |-> isAuthenticated, load |-> isLoading, summ |-> summary,
         path |-> path, store |-> ssNumQuestions, count |-> storedCount]
CurS == [up |-> isUploading, inp |-> hasInput, num |-> numQuestions,
         cur |-> abortCurrent, net |-> net]
CurQ == [questions |-> questions, loading |-> quizIsLoading, error |-> quizError,
         fetching |-> isFetching, fetches |-> quizFetches]

\* The cleanup of Study_session: abortController.current.abort() reaches the
\* request that carries its signal (the generate-summary fetch, until its
\* response is read to the end); the instance's requests go on without it.
Unmounted(r, cur) ==
  IF r.live
  THEN [r EXCEPT !.live = FALSE,
                 !.aborted = cur = 1 /\ r.api = "generate-summary"
                             /\ r.phase \in {"sent", "streaming"}]
  ELSE r

Kill(fs) == {[f EXCEPT !.live = FALSE, !.id = 0] : f \in fs}

FreeIds(fs) == {i \in 1..MaxQuizFetch : \A f \in fs : f.id # i}

\* The effect of Quiz that depends on [propSummary], for summary s: nothing
\* to load without a summary, nothing to start while isFetching.current,
\* else fetchQuiz() starts with GET /api/get-quiz.
QuizEffect(q, s) ==
  IF s = "" THEN [q EXCEPT !.loading = FALSE]
  ELSE IF q.fetching \/ FreeIds(q.fetches) = {} THEN q
  ELSE [q EXCEPT !.fetching = TRUE, !.loading = TRUE, !.error = "",
                 !.fetches = @ \cup {QuizFetch(CHOOSE i \in FreeIds(q.fetches) :
                                        \A j \in FreeIds(q.fetches) : i <= j)}]

FreshQuiz(fs) == [questions |-> <<>>, loading |-> TRUE, error |-> "",
                  fetching |-> FALSE, fetches |-> fs]

\* The re-render that follows every state change, with the effects it runs.
\*  - Study_session unmounts: its cleanup aborts abortController.current.
\*  - Study_session mounts: fresh state, clearResults() and the fetch of the
\*    available PDFs.
\*  - Quiz unmounts: the cleanup of the load effect resets isFetching.current.
\*  - Quiz mounts: fresh state, then the load effect.
\*  - Quiz stays and the summary changed: cleanup, then the load effect again.
\* The variables of a page that is not mounted hold the values of a fresh
\* instance.
Commit(a, s, q) ==
  LET p2 == IF a.load THEN a.path ELSE ResolvePath(a.path, a.auth)
      pg2 == RenderedPage(a.load, a.auth, a.path)
      enterStudy == page # "Study_session" /\ pg2 = "Study_session"
      leaveStudy == page = "Study_session" /\ pg2 # "Study_session"
      enterQuiz == page # "Quiz" /\ pg2 = "Quiz"
      leaveQuiz == page = "Quiz" /\ pg2 # "Quiz"
      summ2 == IF enterStudy THEN "" ELSE a.summ
      q1 == IF leaveQuiz THEN FreshQuiz(Kill(q.fetches))
            ELSE IF enterQuiz THEN QuizEffect(FreshQuiz(q.fetches), summ2)
            ELSE IF pg2 = "Quiz" /\ summ2 # summary
            THEN QuizEffect([q EXCEPT !.fetching = FALSE], summ2)
            ELSE q
  IN /\ isAuthenticated' = a.auth
     /\ isLoading' = a.load
     /\ path' = p2
     /\ page' = pg2
     /\ summary' = summ2
     /\ ssNumQuestions' = a.store
     /\ storedCount' = a.count
     /\ IF enterStudy
        THEN /\ isUploading' = FALSE
             /\ hasInput' = FALSE
             /\ numQuestions' = 5
             /\ abortCurrent' = 0
             /\ net' = s.net \cup {Req("clear-session-content", FALSE, "sent"),
                                   Req("get-user-pdfs", FALSE, "sent")}
        ELSE IF leaveStudy
        THEN /\ isUploading' = FALSE
             /\ hasInput' = FALSE
             /\ numQuestions' = 5
             /\ abortCurrent' = 0
             /\ net' = {Unmounted(r, s.cur) : r \in s.net}
        ELSE /\ isUploading' = s.up
             /\ hasInput' = s.inp
             /\ numQuestions' = s.num
             /\ abortCurrent' = s.cur
             /\ net' = s.net
     /\ questions' = q1.questions
     /\ quizIsLoading' = q1.loading
     /\ quizError' = q1.error
     /\ isFetching' = q1.fetching
     /\ quizFetches' = q1.fetches
     /\ UNCHANGED <<uploadVars, dashVars, flowVars, homeVars>>

\* ------------------------------------------------------------------ Init
\* The pages a specification leaves out are not mounted.
IdleUpload ==
  /\ uploadMounted = FALSE
  /\ processingJobs = <<>>
  /\ interval = FALSE
  /\ ticks = {}
  /\ tasksPending = FALSE
  /\ uploadPending = FALSE
  /\ clearPending = FALSE
  /\ backendStatus = [k \in 1..MaxJobs |-> "none"]

IdleDash ==
  /\ dashMounted = FALSE
  /\ dashSummary = <<>>
  /\ dashIsUploading = FALSE
  /\ dashHasInput = FALSE
  /\ dashAbort = 0
  /\ dashNet = {}
  /\ dashNext = 1

Hashes == 1..MaxSets

IdleHome ==
  /\ homeMounted = FALSE
  /\ sets = <<>>
  /\ homeIsLoading = TRUE
  /\ editingSetHash = 0
  /\ editingTitle = ""
  /\ isDeleteMode = FALSE
  /\ deletingSetHash = 0
  /\ homeNet = {}
  /\ backendSets = [h \in Hashes |-> "none"]

QIds == 1..MaxQuestions
Options == 1..NumOptions

\* {}: no key of the object is defined.
NoAnswers == [id \in QIds |-> 0]
NoneSubmitted == [id \in QIds |-> FALSE]

Captured(qs, cq, sel, sub) == [questions |-> qs, cq |-> cq, sel |-> sel, sub |-> sub]

IdleFlow ==
  /\ currentQuestion = 0
  /\ selectedAnswers = NoAnswers
  /\ submittedAnswers = NoneSubmitted
  /\ showResults = FALSE
  /\ isPreviewing = TRUE
  /\ isQuizMode = FALSE
  /\ hotkey = Captured(<<>>, 0, NoAnswers, NoneSubmitted)
  /\ answersSent = FALSE
  /\ isGeneratingMoreQuestions = FALSE
  /\ listNet = {}
  /\ saveTimers = {}
  /\ flowNet = {}

InitApp ==
  /\ IdleHome
  /\ IdleUpload /\ IdleDash /\ IdleFlow
  /\ isAuthenticated = FALSE
  /\ isLoading = TRUE
  /\ summary = ""
  /\ path \in Paths
  /\ page = "Loading"
  /\ ssNumQuestions = Null
  /\ storedCount = 0
  /\ isUploading = FALSE
  /\ hasInput = FALSE
  /\ numQuestions = 5
  /\ abortCurrent = 0
  /\ net = {Req("auth-check", FALSE, "sent")}
  /\ questions = <<>>
  /\ quizIsLoading = TRUE
  /\ quizError = ""
  /\ isFetching = FALSE
  /\ quizFetches = {}

\* --------------------------------------------------- App.jsx: interceptor
\* The axios response interceptor: a 401 clears the authentication state,
\* the summary and the session storage.
Intercept(status) ==
  IF status = 401
  THEN [CurA EXCEPT !.auth = FALSE, !.summ = "", !.store = Null, !.count = 0]
  ELSE CurA

\* checkAuth(): the continuation of GET /api/auth/check.
CheckAuthRespond(r, outcome, s) ==
  /\ r \in net /\ r.api = "auth-check"
  /\ outcome \in {"authenticated", "unauthenticated", "status401", "error"}
  /\ LET a1 == Intercept(IF outcome = "status401" THEN 401 ELSE 200)
         s1 == [CurS EXCEPT !.net = @ \ {r}]
     IN IF outcome = "authenticated"
        THEN Commit([a1 EXCEPT !.auth = TRUE, !.load = FALSE, !.summ = s], s1, CurQ)
        ELSE Commit([a1 EXCEPT !.auth = FALSE, !.load = FALSE, !.summ = ""], s1, CurQ)

\* Login.handleSubmit: POST /api/auth/login, then GET /api/auth/check.
LoginSubmit ==
  /\ page = "Login"
  /\ Commit(CurA, [CurS EXCEPT !.net = @ \cup {Req("login", FALSE, "sent")}], CurQ)

LoginRespond(r, status, authenticated, s) ==
  /\ r \in net /\ r.api = "login"
  /\ status \in {200, 401, 500}
  /\ LET a1 == Intercept(status)
         s1 == [CurS EXCEPT !.net = @ \ {r}]
     IN IF status # 200
        THEN Commit(a1, s1, CurQ)
        ELSE IF r.phase = "sent"
        THEN Commit(a1, [s1 EXCEPT !.net = @ \cup {[r EXCEPT !.phase = "checking"]}], CurQ)
        ELSE IF authenticated
        THEN Commit([a1 EXCEPT !.auth = TRUE, !.summ = s, !.path = "/"], s1, CurQ)
        ELSE Commit(a1, s1, CurQ)

\* The user moves through the history or follows a link of the app.
Navigate(p) ==
  /\ ~isLoading /\ p \in Paths /\ p # path
  /\ Commit([CurA EXCEPT !.path = p], CurS, CurQ)

\* Home.handleLoadSet: POST /api/load-study-set.
HomeLoadSet ==
  /\ page = "Home"
  /\ Commit(CurA, [CurS EXCEPT !.net = @ \cup {Req("load-study-set", FALSE, "sent")}],
            CurQ)

\* ------------------------------------------------ Study_session handlers
isContentLocked == summary # ""

\* The text field and the PDF check boxes.
EditInput ==
  /\ page = "Study_session" /\ ~isContentLocked /\ ~isUploading
  /\ Commit(CurA, [CurS EXCEPT !.inp = ~hasInput], CurQ)

\* The onChange handler of the question count field.
ClampCountNoMax(text) == Min(20, OrDefault(ParseInt(text), 1))

ClampCount(text) == Max(1, Min(20, OrDefault(ParseInt(text), 1)))

GoToQuizEnabled == page = "Study_session" /\ summary # "" /\ ~isUploading

NumQuestionsChange(text) ==
  /\ GoToQuizEnabled
  /\ Commit(CurA, [CurS EXCEPT !.num = ClampCount(text)], CurQ)

GenerateEnabledNoGuard == page = "Study_session" /\ ~isContentLocked /\ hasInput

GenerateEnabled ==
  page = "Study_session" /\ ~isContentLocked /\ hasInput /\ ~isUploading

generateSummary ==
  /\ GenerateEnabled
  /\ Commit([CurA EXCEPT !.summ = ""],
            [CurS EXCEPT !.up = TRUE, !.cur = 1,
               !.net = @ \cup {Req("generate-summary", TRUE, "sent")}],
            CurQ)

RegenerateEnabled == page = "Study_session" /\ summary # "" /\ ~isUploading

regenerateSummary ==
  /\ RegenerateEnabled
  /\ Commit([CurA EXCEPT !.summ = ""],
            [CurS EXCEPT !.up = TRUE,
               !.net = @ \cup {Req("regenerate-summary", TRUE, "sent")}],
            CurQ)

ClearEnabled == page = "Study_session" /\ summary # "" /\ ~isUploading

clearResults ==
  /\ ClearEnabled
  /\ Commit([CurA EXCEPT !.summ = ""],
            [CurS EXCEPT !.inp = FALSE,
               !.net = @ \cup {Req("clear-session-content", FALSE, "sent")}],
            CurQ)

goToQuiz ==
  /\ GoToQuizEnabled
  /\ Commit([CurA EXCEPT !.store = NumberToString(numQuestions),
                         !.count = numQuestions, !.path = "/quiz"], CurS, CurQ)

\* The Logout button of the app bar: POST /api/auth/logout.
handleLogout ==
  /\ page = "Study_session"
  /\ Commit(CurA, [CurS EXCEPT !.net = @ \cup {Req("logout", FALSE, "sent")}], CurQ)

\* ------------------------------------- Study_session: request continuations
FetchOutcomes == {"json_success", "json_failure", "status401", "status500",
                  "network_error", "stream"}

\* finally { setIsUploading(false) }, a no-op once the instance is unmounted.
Finally(r) == IF r.live THEN FALSE ELSE isUploading

\* The continuation of fetch('/api/generate-summary') and of
\* fetch('/api/regenerate-summary').  A response that is not ok (401
\* included) throws Error(errText): err.response is undefined, so the catch
\* block only sets the error banner.
FetchRespond(r, outcome) ==
  /\ r \in net /\ r.api \in FetchApis /\ r.phase = "sent"
  /\ LET done == [CurS EXCEPT !.up = Finally(r), !.net = @ \ {r}]
     IN IF r.aborted
        THEN \* AbortError: setError('Processing cancelled')
             outcome = "abort" /\ Commit(CurA, done, CurQ)
        ELSE /\ outcome \in FetchOutcomes
             /\ CASE outcome = "json_success" ->
                       Commit([CurA EXCEPT !.summ = "text"], done, CurQ)
                  [] outcome = "stream" ->
                       Commit(CurA, [CurS EXCEPT !.net = (@ \ {r}) \cup
                                       {[r EXCEPT !.phase = "streaming"]}], CurQ)
                  [] OTHER -> Commit(CurA, done, CurQ)

\* reader.read() delivers a chunk: setSummary(finalSummary).
StreamChunk(r) ==
  /\ r \in net /\ r.api \in FetchApis /\ r.phase = "streaming"
  /\ ~r.aborted
  /\ Commit([CurA EXCEPT !.summ = "text"], CurS, CurQ)

\* reader.read() reports done (or rejects after an abort); the summary is
\* saved if !abortController.current.signal.aborted, which throws a
\* TypeError when abortController.current is null.
StreamEnd(r) ==
  /\ r \in net /\ r.api \in FetchApis /\ r.phase = "streaming"
  /\ LET ref == IF r.live THEN abortCurrent ELSE 0
     IN IF r.aborted \/ ref = 0
        THEN Commit(CurA, [CurS EXCEPT !.up = Finally(r), !.net = @ \ {r}], CurQ)
        ELSE Commit(CurA, [CurS EXCEPT !.net = (@ \ {r}) \cup
                             {[r EXCEPT !.phase = "saving"]}], CurQ)

\* The continuation of axios.post('/api/save-summary').  Only the catch block
\* of generateSummary looks at err.response.status.
SaveRespond(r, status) ==
  /\ r \in net /\ r.api \in FetchApis /\ r.phase = "saving"
  /\ status \in {200, 401, 500}
  /\ LET a1 == Intercept(status)
         a2 == IF status = 401 /\ r.api = "generate-summary"
               THEN [a1 EXCEPT !.path = "/login"] ELSE a1
     IN Commit(a2, [CurS EXCEPT !.up = Finally(r), !.net = @ \ {r}], CurQ)

AxiosApis == {"get-user-pdfs", "clear-session-content", "logout", "load-study-set"}

\* The continuation of the other axios requests, after the interceptor.
AxiosRespond(r, status) ==
  /\ r \in net /\ r.api \in AxiosApis
  /\ status \in {200, 401, 500}
  /\ LET a1 == Intercept(status)
         s1 == [CurS EXCEPT !.net = @ \ {r}]
     IN CASE r.api = "get-user-pdfs" ->
               Commit(IF status = 401 THEN [a1 EXCEPT !.path = "/login"] ELSE a1, s1, CurQ)
          [] r.api = "logout" ->
               Commit([a1 EXCEPT !.auth = FALSE, !.path = "/login"], s1, CurQ)
          [] r.api = "load-study-set" ->
               Commit(IF status = 200 THEN [a1 EXCEPT !.summ = "text", !.path = "/quiz"]
                      ELSE a1, s1, CurQ)
          [] OTHER -> Commit(a1, s1, CurQ)

\* --------------------------------------------------- Quiz.jsx: fetchQuiz
\* The JSON bodies GET /api/get-quiz answers with.
GetQuizBodies == {[success |-> TRUE, count |-> 2], [success |-> TRUE, count |-> 1],
                  [success |-> TRUE, count |-> 0], [success |-> FALSE, count |-> 0]}

HasExistingMoreThanOne(body) == body.success /\ body.count > 1

\* existingResponse.data.success && existingResponse.data.questions.length > 0
HasExisting(body) == body.success /\ body.count > 0

\* finally { setIsLoading(false); isFetching.current = false }
QuizFinally(f, q) ==
  IF f.live THEN [q EXCEPT !.loading = FALSE, !.fetching = FALSE,
                           !.fetches = @ \ {f}]
  ELSE [q EXCEPT !.fetches = @ \ {f}]

\* The continuation of GET /api/get-quiz: existing questions are shown, else
\* POST /api/generate-quiz is sent with the stored question count.
QuizGetRespond(f, status, body) ==
  /\ f \in quizFetches /\ f.phase = "get"
  /\ status \in {200, 401, 500} /\ body \in GetQuizBodies
  /\ IF status # 200
     THEN Commit(Intercept(status), CurS,
                 QuizFinally(f, IF f.live THEN [CurQ EXCEPT !.error = "failed"] ELSE CurQ))
     ELSE IF HasExisting(body)
     THEN Commit(CurA, CurS,
                 QuizFinally(f, IF f.live
                                THEN [CurQ EXCEPT !.questions = ExistingQuestions(body.count)]
                                ELSE CurQ))
     ELSE Commit(CurA, CurS,
                 [CurQ EXCEPT !.fetches = (@ \ {f}) \cup
                    {[f EXCEPT !.phase = "gen", !.got = body,
                               !.num = OrDefault(ParseInt(ssNumQuestions), 5)]}])

\* The continuation of POST /api/generate-quiz.
QuizGenerateRespond(f, outcome) ==
  /\ f \in quizFetches /\ f.phase = "gen"
  /\ outcome \in {"questions", "exists", "failure", "status401", "status500"}
  /\ LET a1 == Intercept(IF outcome = "status401" THEN 401 ELSE 200)
         q1 == IF ~f.live THEN CurQ
               ELSE IF outcome = "questions"
               THEN [CurQ EXCEPT !.questions = GeneratedQuestions]
               ELSE IF outcome = "exists" THEN [CurQ EXCEPT !.error = "exists"]
               ELSE [CurQ EXCEPT !.error = "failed"]
     IN Commit(a1, CurS, QuizFinally(f, q1))

\* ------------------------------------------------- Upload_pdfs.jsx: polling
Terminal(status) == status \in {"SUCCESS", "FAILURE"}

Job(id, status) == [id |-> id, status |-> status]

\* The statuses a task passes through, in order.
Later(status) ==
  CASE status = "PENDING"    -> {"PENDING", "PROCESSING", "SUCCESS", "FAILURE"}
    [] status = "PROCESSING" -> {"PROCESSING", "SUCCESS", "FAILURE"}
    [] OTHER                 -> {status}

PollingActiveMoreThanOne(jobs) == Len(jobs) > 1

\* if (processingJobs.length > 0) interval = setInterval(...)
PollingActive(jobs) == Len(jobs) > 0

\* setProcessingJobs(jobs) and the polling effect it re-runs: the old interval
\* is cleared and a new one captures the new list.
SetJobs(jobs) ==
  /\ processingJobs' = jobs
  /\ interval' = PollingActive(jobs)

\* What one status request of a tick returns for job: the job when it was
\* not polled, else the status of the response, or FAILURE for a response
\* without success and for a request that failed.
Responses(job, seen) ==
  IF Terminal(job.status) THEN {"skip"}
  ELSE {"failure", "error"} \cup
       {st \in Later(seen[job.id]) : backendStatus[job.id] \in Later(st)}

Polled(job, resp) ==
  IF resp = "skip" THEN job
  ELSE IF resp \in {"failure", "error"} THEN Job(job.id, "FAILURE")
  ELSE Job(job.id, resp)

\* The tasks GET /api/get-user-tasks lists, with their status.
RECURSIVE BackendTasks(_)
BackendTasks(k) ==
  IF k = 0 THEN <<>>
  ELSE IF backendStatus[k] = "none" THEN BackendTasks(k - 1)
  ELSE Append(BackendTasks(k - 1), Job(k, backendStatus[k]))

\* The continuation of fetchInitialTasks.
InitialTasksRespond(success) ==
  /\ uploadMounted /\ tasksPending
  /\ tasksPending' = FALSE
  /\ IF success THEN SetJobs(BackendTasks(MaxJobs))
     ELSE UNCHANGED <<processingJobs, interval>>
  /\ UNCHANGED <<uploadMounted, ticks, uploadPending, clearPending, backendStatus>>
  /\ UNCHANGED <<appVars, dashVars, flowVars, homeVars>>

handleUploadFiles ==
  /\ uploadMounted /\ ~uploadPending
  /\ \E k \in 1..MaxJobs : backendStatus[k] = "none"
  /\ uploadPending' = TRUE
  /\ UNCHANGED <<uploadMounted, processingJobs, interval, ticks, tasksPending,
                 clearPending, backendStatus>>
  /\ UNCHANGED <<appVars, dashVars, flowVars, homeVars>>

\* The uploads settled: the backend queued a task for the file (or refused
\* it), and the new job is appended to the list as PENDING.
UploadRespond(success) ==
  /\ uploadMounted /\ uploadPending
  /\ uploadPending' = FALSE
  /\ IF success
     THEN LET k == CHOOSE i \in 1..MaxJobs :
                     /\ backendStatus[i] = "none"
                     /\ \A j \in 1..(i - 1) : backendStatus[j] # "none"
          IN /\ backendStatus' = [backendStatus EXCEPT ![k] = "PENDING"]
             /\ SetJobs(Append(processingJobs, Job(k, "PENDING")))
     ELSE UNCHANGED <<processingJobs, interval, backendStatus>>
  /\ UNCHANGED <<uploadMounted, ticks, tasksPending, clearPending>>
  /\ UNCHANGED <<appVars, dashVars, flowVars, homeVars>>

handleClearCompletedTasks ==
  /\ uploadMounted /\ processingJobs # <<>> /\ ~clearPending
  /\ clearPending' = TRUE
  /\ UNCHANGED <<uploadMounted, processingJobs, interval, ticks, tasksPending,
                 uploadPending, backendStatus>>
  /\ UNCHANGED <<appVars, dashVars, flowVars, homeVars>>

ClearRespond(success) ==
  /\ uploadMounted /\ clearPending
  /\ clearPending' = FALSE
  /\ IF success
     THEN SetJobs(SelectSeq(processingJobs, LAMBDA job : ~Terminal(job.status)))
     ELSE UNCHANGED <<processingJobs, interval>>
  /\ UNCHANGED <<uploadMounted, ticks, tasksPending, uploadPending, backendStatus>>
  /\ UNCHANGED <<appVars, dashVars, flowVars, homeVars>>

FreeTicks == {i \in 1..MaxTicks : \A t \in ticks : t.id # i}

AllTerminal(jobs) == \A i \in DOMAIN jobs : Terminal(jobs[i].status)

\* The status the backend has for every job that is polled, when the
\* requests of a tick are sent ("none" for the others).
Seen(jobs) ==
  [k \in 1..MaxJobs |->
     IF \E i \in DOMAIN jobs : jobs[i].id = k /\ ~Terminal(jobs[i].status)
     THEN backendStatus[k] ELSE "none"]

\* The interval fires.  The callback copies the list its closure captured
\* (the list of the last render) and sends a status request for every job
\* of it that is not terminal; without such a job Promise.all settles at
\* once and the same list is set again.
TickStart ==
  /\ uploadMounted /\ interval
  /\ IF AllTerminal(processingJobs)
     THEN /\ SetJobs(processingJobs)
          /\ UNCHANGED ticks
     ELSE /\ FreeTicks # {}
          /\ ticks' = ticks \cup
               {[id |-> CHOOSE i \in FreeTicks : \A j \in FreeTicks : i <= j,
                 snap |-> processingJobs, seen |-> Seen(processingJobs)]}
          /\ UNCHANGED <<processingJobs, interval>>
  /\ UNCHANGED <<uploadMounted, tasksPending, uploadPending, clearPending, backendStatus>>
  /\ UNCHANGED <<appVars, dashVars, flowVars, homeVars>>

\* Promise.all of tick t settled with the responses resp:
\* setProcessingJobs(updatedJobs).
TickDone(t, resp) ==
  /\ uploadMounted /\ t \in ticks
  /\ DOMAIN resp = DOMAIN t.snap
  /\ \A i \in DOMAIN resp : resp[i] \in Responses(t.snap[i], t.seen)
  /\ ticks' = ticks \ {t}
  /\ SetJobs([i \in DOMAIN t.snap |-> Polled(t.snap[i], resp[i])])
  /\ UNCHANGED <<uploadMounted, tasksPending, uploadPending, clearPending, backendStatus>>
  /\ UNCHANGED <<appVars, dashVars, flowVars, homeVars>>

\* The backend works on task k.
BackendStep(k, status) ==
  /\ backendStatus[k] \in {"PENDING", "PROCESSING"}
  /\ status \in Later(backendStatus[k]) \ {backendStatus[k]}
  /\ backendStatus' = [backendStatus EXCEPT ![k] = status]
  /\ UNCHANGED <<uploadMounted, processingJobs, interval, ticks, tasksPending,
                 uploadPending, clearPending>>
  /\ UNCHANGED <<appVars, dashVars, flowVars, homeVars>>

\* The user leaves the page (or a 401 logs the user out): the cleanup clears
\* the interval, and what is still awaited finds no component to update.
UploadLeave ==
  /\ uploadMounted
  /\ uploadMounted' = FALSE
  /\ processingJobs' = <<>>
  /\ interval' = FALSE
  /\ ticks' = {}
  /\ tasksPending' = FALSE
  /\ uploadPending' = FALSE
  /\ clearPending' = FALSE
  /\ UNCHANGED backendStatus
  /\ UNCHANGED <<appVars, dashVars, flowVars, homeVars>>

\* ---------------------------------------------------------- Dashboard.jsx
\* The summary a request returns is tagged with the number of the request;
\* the session's summary is the one checkAuth found.
SummaryOf(id) == <<"summary", id>>
SessionSummary == <<"session">>

\* cancelled: the user clicked Cancel while the request was in flight.
DashReq(id, api) == [id |-> id, api |-> api, aborted |-> FALSE, cancelled |-> FALSE]

DashEditInput ==
  /\ dashMounted /\ ~dashIsUploading
  /\ dashHasInput' = ~dashHasInput
  /\ UNCHANGED <<dashMounted, dashSummary, dashIsUploading, dashAbort, dashNet, dashNext>>
  /\ UNCHANGED <<appVars, uploadVars, flowVars, homeVars>>

\* 'Generate New Summary': POST /api/upload-multiple with the signal of a new
\* AbortController.
uploadPDFs ==
  /\ dashMounted /\ dashHasInput /\ ~dashIsUploading /\ dashNext <= MaxDashReq
  /\ dashIsUploading' = TRUE
  /\ dashSummary' = <<>>
  /\ dashAbort' = dashNext
  /\ dashNet' = dashNet \cup {DashReq(dashNext, "upload-multiple")}
  /\ dashNext' = dashNext + 1
  /\ UNCHANGED <<dashMounted, dashHasInput>>
  /\ UNCHANGED <<appVars, uploadVars, flowVars, homeVars>>

\* 'Regenerate': POST /api/regenerate-summary, without a signal.
dashRegenerateSummary ==
  /\ dashMounted /\ dashSummary # <<>> /\ ~dashIsUploading /\ dashNext <= MaxDashReq
  /\ dashIsUploading' = TRUE
  /\ dashNet' = dashNet \cup {DashReq(dashNext, "regenerate-summary")}
  /\ dashNext' = dashNext + 1
  /\ UNCHANGED <<dashMounted, dashSummary, dashHasInput, dashAbort>>
  /\ UNCHANGED <<appVars, uploadVars, flowVars, homeVars>>

CancelOffered == dashMounted /\ dashIsUploading

\* What Cancel does to a request in flight: abort() reaches the request that
\* carries the signal of abortController.current.
Cancelled(r) ==
  [r EXCEPT !.cancelled = TRUE,
            !.aborted = @ \/ (r.api = "upload-multiple" /\ r.id = dashAbort)]

\* The Cancel button, shown while isUploading.
cancelUpload ==
  /\ CancelOffered
  /\ IF dashAbort # 0
     THEN /\ dashNet' = {Cancelled(r) : r \in dashNet}
          /\ dashIsUploading' = FALSE
     ELSE /\ dashNet' = {[r EXCEPT !.cancelled = TRUE] : r \in dashNet}
          /\ UNCHANGED dashIsUploading
  /\ UNCHANGED <<dashMounted, dashSummary, dashHasInput, dashAbort, dashNext>>
  /\ UNCHANGED <<appVars, uploadVars, flowVars, homeVars>>

\* 'Clear' of the results card.
dashClearResults ==
  /\ dashMounted /\ dashSummary # <<>>
  /\ dashSummary' = <<>>
  /\ UNCHANGED <<dashMounted, dashIsUploading, dashHasInput, dashAbort, dashNet, dashNext>>
  /\ UNCHANGED <<appVars, uploadVars, flowVars, homeVars>>

DashOutcomes == {"success", "failure", "error", "status401"}

\* The continuation of the awaited request r of uploadPDFs or of
\* regenerateSummary; an aborted request rejects.
DashRespond(r, outcome) ==
  /\ dashMounted /\ r \in dashNet
  /\ IF r.aborted THEN outcome = "abort" ELSE outcome \in DashOutcomes
  /\ dashNet' = dashNet \ {r}
  /\ dashSummary' = IF outcome = "success" THEN SummaryOf(r.id) ELSE dashSummary
  /\ IF outcome = "status401" /\ r.api = "upload-multiple"
     THEN \* setIsAuthenticated(false); navigate('/login')
          /\ dashMounted' = FALSE
          /\ dashIsUploading' = FALSE
     ELSE /\ dashIsUploading' = FALSE
          /\ UNCHANGED dashMounted
  /\ UNCHANGED <<dashHasInput, dashAbort, dashNext>>
  /\ UNCHANGED <<appVars, uploadVars, flowVars, homeVars>>

\* ------------------------------------------------- Quiz.jsx: the quiz flow
\* The state the running handler has set, before the re-render.
CurF == [questions |-> questions, loading |-> quizIsLoading, error |-> quizError,
         cq |-> currentQuestion, sel |-> selectedAnswers, sub |-> submittedAnswers,
         res |-> showResults, prev |-> isPreviewing, timers |-> saveTimers,
         net |-> flowNet, sent |-> answersSent,
         gen |-> isGeneratingMoreQuestions, lnet |-> listNet]

\* useHotkeys('1', () => handleKeyboardAnswer(0),
\*            [currentQuestion, submittedAnswers, isQuizMode]):
\* the callback is replaced when a dependency changed; every
\* setSubmittedAnswers(...) passes a new object.
HotkeyDepsChanged(f, setSubmitted) == f.cq # currentQuestion \/ setSubmitted

\* The re-render after a handler of the quiz flow.
FlowCommit(f, setSubmitted) ==
  /\ questions' = f.questions
  /\ quizIsLoading' = f.loading
  /\ quizError' = f.error
  /\ currentQuestion' = f.cq
  /\ selectedAnswers' = f.sel
  /\ submittedAnswers' = f.sub
  /\ showResults' = f.res
  /\ isPreviewing' = f.prev
  /\ saveTimers' = f.timers
  /\ isGeneratingMoreQuestions' = f.gen
  /\ listNet' = f.lnet
  /\ answersSent' = IF f.sub # submittedAnswers THEN FALSE ELSE f.sent
  /\ flowNet' = f.net
  /\ hotkey' = IF HotkeyDepsChanged(f, setSubmitted)
               THEN Captured(f.questions, f.cq, f.sel, f.sub)
               ELSE hotkey
  /\ UNCHANGED <<isQuizMode, appCore, uploadVars, dashVars, homeVars>>

\* Which of the screens the render shows.
ViewResults == ~quizIsLoading /\ quizError = "" /\ showResults
ViewPreview == ~quizIsLoading /\ quizError = "" /\ ~showResults /\ isPreviewing
ViewAnswering ==
  /\ ~quizIsLoading /\ quizError = "" /\ ~showResults /\ ~isPreviewing
  /\ currentQuestion < Len(questions)

\* questions[i]?.id: 0 is undefined.
IdAt(qs, i) == IF i + 1 \in DOMAIN qs THEN qs[i + 1] ELSE 0

SelectAllowedAlways(sub, id) == TRUE

\* if (!submittedAnswers[questionId])
SelectAllowed(sub, id) == ~sub[id]

\* A click on an option, in the answering screen or in the review list of
\* the results screen.
handleAnswerSelect(id, opt) ==
  /\ isQuizMode /\ id \in QIds /\ opt \in Options
  /\ \/ ViewAnswering /\ id = IdAt(questions, currentQuestion)
     \/ ViewResults /\ \E i \in DOMAIN questions : questions[i] = id
  /\ IF SelectAllowed(submittedAnswers, id)
     THEN FlowCommit([CurF EXCEPT !.sel = [selectedAnswers EXCEPT ![id] = opt]], FALSE)
     ELSE FlowCommit(CurF, FALSE)

\* A number key: the callback the hotkey holds sees the questions and the
\* selectedAnswers of the render that created it.
handleKeyboardAnswer(opt) ==
  /\ opt \in Options
  /\ LET id == IdAt(hotkey.questions, hotkey.cq)
     IN IF id # 0 /\ ~hotkey.sub[id] /\ isQuizMode /\ SelectAllowed(hotkey.sub, id)
        THEN FlowCommit([CurF EXCEPT !.sel = [hotkey.sel EXCEPT ![id] = opt]], FALSE)
        ELSE FlowCommit(CurF, FALSE)

\* setSubmittedAnswers({...}) and setTimeout(() => saveUserAnswers(), 100):
\* the timer's saveUserAnswers is the one of the render that ran the handler.
Submitted(id) ==
  [CurF EXCEPT !.sub = [submittedAnswers EXCEPT ![id] = TRUE],
               !.timers = @ \cup {[id |-> id, sel |-> selectedAnswers,
                                    sub |-> submittedAnswers]}]

SavesPending == Cardinality(saveTimers) + Cardinality(flowNet)

SubmitOfferedAlways(sel, id) == TRUE

\* disabled={selectedAnswers[questions[currentQuestion].id] === undefined}
\* on the button, selectedAnswers[currentQuestionId] !== undefined in the
\* enter key's callback.
SubmitOffered(sel, id) == sel[id] # 0

\* The Submit Answer button.
handleSubmitAnswer ==
  /\ ViewAnswering /\ isQuizMode /\ SavesPending < MaxSaves
  /\ LET id == IdAt(questions, currentQuestion)
     IN /\ ~submittedAnswers[id] /\ SubmitOffered(selectedAnswers, id)
        /\ FlowCommit(Submitted(id), TRUE)

handleStartQuiz ==
  /\ ViewPreview /\ ~isGeneratingMoreQuestions
  /\ FlowCommit([CurF EXCEPT !.prev = FALSE], FALSE)

MovedNext ==
  IF currentQuestion < Len(questions) - 1
  THEN [CurF EXCEPT !.cq = currentQuestion + 1]
  ELSE [CurF EXCEPT !.res = TRUE]

\* The Skip / Next / Next Question buttons and the right arrow key.
moveToNextQuestion ==
  /\ \/ /\ ViewAnswering
        /\ \/ ~submittedAnswers[IdAt(questions, currentQuestion)]
           \/ currentQuestion < Len(questions) - 1
     \/ ~isPreviewing /\ ~showResults
  /\ FlowCommit(MovedNext, FALSE)

\* The Previous button and the left arrow key.
moveToPreviousQuestion ==
  /\ \/ ViewAnswering
     \/ ~isPreviewing /\ ~showResults
  /\ currentQuestion > 0
  /\ FlowCommit([CurF EXCEPT !.cq = currentQuestion - 1], FALSE)

\* The enter key in quiz mode.
EnterKey ==
  /\ ~isPreviewing /\ ~showResults /\ isQuizMode
  /\ LET id == IdAt(questions, currentQuestion)
     IN IF id = 0 THEN FlowCommit(CurF, FALSE)
        ELSE IF submittedAnswers[id] THEN FlowCommit(MovedNext, FALSE)
        ELSE IF SubmitOffered(selectedAnswers, id)
        THEN SavesPending < MaxSaves /\ FlowCommit(Submitted(id), TRUE)
        ELSE FlowCommit(CurF, FALSE)

\* A request of the quiz flow: id is the question whose submission set the
\* timer of a "save" request (0 otherwise), sel and sub are the body.
FlowReq(kind, id, sel, sub) == [kind |-> kind, id |-> id, sel |-> sel, sub |-> sub]

\* The body of a save-quiz-answers request has every submitted answer.
Carries(sel, sub) ==
  /\ sub = submittedAnswers
  /\ \A id \in QIds : submittedAnswers[id] => sel[id] = selectedAnswers[id]

\* The Complete Quiz button: await saveUserAnswers().
completeQuiz ==
  /\ ViewAnswering /\ SavesPending < MaxSaves
  /\ submittedAnswers[IdAt(questions, currentQuestion)]
  /\ currentQuestion >= Len(questions) - 1
  /\ FlowCommit([CurF EXCEPT !.net = @ \cup {FlowReq("complete", 0, selectedAnswers,
                                                      submittedAnswers)},
                             !.sent = @ \/ Carries(selectedAnswers, submittedAnswers)], FALSE)

\* A timer of handleSubmitAnswer fires: saveUserAnswers() posts the answers
\* its closure holds.
SaveTimerFires(t) ==
  /\ t \in saveTimers
  /\ FlowCommit([CurF EXCEPT !.timers = @ \ {t},
                             !.net = @ \cup {FlowReq("save", t.id, t.sel, t.sub)},
                             !.sent = @ \/ Carries(t.sel, t.sub)], FALSE)

\* POST /api/save-quiz-answers is answered (saveUserAnswers swallows an
\* error); completeQuiz goes on with setShowResults(true).
SaveAnswersRespond(r) ==
  /\ r \in flowNet /\ r.kind \in {"save", "complete"}
  /\ FlowCommit([CurF EXCEPT !.net = @ \ {r},
                             !.res = IF r.kind = "complete" THEN TRUE ELSE @], FALSE)

\* The Preview button of the app bar.
handleBackToPreview ==
  /\ showResults \/ ~isPreviewing
  /\ FlowCommit([CurF EXCEPT !.prev = TRUE, !.res = FALSE], FALSE)

\* Try Again, on the results screen.
resetQuiz ==
  /\ ViewResults /\ ~isGeneratingMoreQuestions
  /\ FlowCommit([CurF EXCEPT !.sel = NoAnswers, !.sub = NoneSubmitted, !.cq = 0,
                             !.res = FALSE, !.prev = TRUE], TRUE)

\* Shuffle, on the preview screen: POST /api/shuffle-quiz.
shuffleQuestions ==
  /\ ViewPreview /\ Len(questions) >= 2 /\ ~isGeneratingMoreQuestions
  /\ \A r \in flowNet : r.kind # "shuffle"
  /\ FlowCommit([CurF EXCEPT !.loading = TRUE, !.error = "",
                             !.net = @ \cup {FlowReq("shuffle", 0, NoAnswers,
                                                      NoneSubmitted)}], FALSE)

\* Start Starred Quiz, on the preview screen: POST /api/start-starred-quiz.
handleStartStarredQuiz ==
  /\ ViewPreview /\ ~isGeneratingMoreQuestions
  /\ \A r \in flowNet : r.kind # "starred"
  /\ FlowCommit([CurF EXCEPT !.loading = TRUE, !.error = "",
                             !.net = @ \cup {FlowReq("starred", 0, NoAnswers,
                                                      NoneSubmitted)}], FALSE)

\* The question lists the backend answers with: the questions of the
\* session in some order (shuffle), or the starred ones of them.
QuestionLists ==
  {qs \in UNION {[1..n -> QIds] : n \in 1..MaxQuestions} :
     \A i, j \in DOMAIN qs : i # j => qs[i] # qs[j]}

\* The continuation of shuffleQuestions and of handleStartStarredQuiz.
NewQuestionsRespond(r, success, qs) ==
  /\ r \in flowNet /\ r.kind \in {"shuffle", "starred"}
  /\ qs \in QuestionLists
  /\ \A i \in DOMAIN qs : \E j \in DOMAIN questions : qs[i] = questions[j]
  /\ r.kind = "shuffle" => Len(qs) = Len(questions)
  /\ IF ~success
     THEN FlowCommit([CurF EXCEPT !.net = @ \ {r}, !.loading = FALSE,
                                  !.error = "failed"], FALSE)
     ELSE FlowCommit([CurF EXCEPT !.net = @ \ {r}, !.loading = FALSE,
                        !.questions = qs, !.sel = NoAnswers, !.sub = NoneSubmitted,
                        !.cq = 0,
                        !.res = IF r.kind = "starred" THEN FALSE ELSE @,
                        !.prev = IF r.kind = "starred" THEN FALSE ELSE @], TRUE)

\* A request that answers with a list of questions; snap is the list the
\* session had when the request was sent.
ListReq(kind, snap) == [kind |-> kind, snap |-> snap]

\* The Generate More button of the preview screen: POST /api/generate-quiz
\* with type 'additional'.
generateAdditionalQuestions ==
  /\ ViewPreview /\ ~isGeneratingMoreQuestions
  /\ Len(questions) < MaxQuestions
  /\ FlowCommit([CurF EXCEPT !.gen = TRUE, !.error = "",
                             !.lnet = @ \cup {ListReq("more", questions)}], FALSE)

UnusedIds(qs) == {id \in QIds : \A i \in DOMAIN qs : qs[i] # id}

\* The continuation of generateAdditionalQuestions:
\* setQuestions(prevQuestions => [...prevQuestions, ...response.data.questions]).
MoreRespond(r, success) ==
  /\ r \in listNet /\ r.kind = "more"
  /\ success => UnusedIds(questions) # {}
  /\ IF success
     THEN FlowCommit([CurF EXCEPT !.lnet = @ \ {r}, !.gen = FALSE,
            !.questions = Append(@, CHOOSE id \in UnusedIds(questions) :
                                       \A x \in UnusedIds(questions) : id <= x)],
            FALSE)
     ELSE FlowCommit([CurF EXCEPT !.lnet = @ \ {r}, !.gen = FALSE,
                                  !.error = "failed"], FALSE)

\* The Star All / Unstar All buttons of the preview screen:
\* POST /api/star-all-questions.
handleBulkStarQuestions ==
  /\ ViewPreview /\ ~isGeneratingMoreQuestions
  /\ Cardinality({r \in listNet : r.kind = "star"}) < MaxListReq
  /\ FlowCommit([CurF EXCEPT !.error = "",
                             !.lnet = @ \cup {ListReq("star", questions)}], FALSE)

\* The continuation of handleBulkStarQuestions:
\* setQuestions(response.data.questions), the session's questions as the
\* backend had them for the request.
StarRespond(r, success) ==
  /\ r \in listNet /\ r.kind = "star"
  /\ IF success
     THEN FlowCommit([CurF EXCEPT !.lnet = @ \ {r}, !.questions = r.snap], FALSE)
     ELSE FlowCommit([CurF EXCEPT !.lnet = @ \ {r}, !.error = "failed"], FALSE)

\* ---------------------------------------------------------------- Home.jsx
StudySet(h, t) == [hash |-> h, title |-> t]

Titles == {"old", "new"}

\* What the user can have in the title field.
TitleTexts == {"", " "} \cup Titles

\* editingTitle.trim()
Trim(t) == IF t = " " THEN "" ELSE t

Listed(ss, h) == \E i \in DOMAIN ss : ss[i].hash = h

\* The sets GET /api/get-question-sets lists.
RECURSIVE BackendList(_)
BackendList(k) ==
  IF k = 0 THEN <<>>
  ELSE IF backendSets[k] = "none" THEN BackendList(k - 1)
  ELSE Append(BackendList(k - 1), StudySet(k, backendSets[k]))

\* A request of the Home page; snap is the sets its handler's closure holds.
HomeReq(kind, h, t, snap) == [kind |-> kind, hash |-> h, title |-> t, snap |-> snap]

HomeWrites == {r \in homeNet : r.kind \in {"title", "delete"}}

\* The list of sets is rendered.
HomeShown == homeMounted /\ ~homeIsLoading

\* The continuation of fetchSets, started by the mount effect.
FetchSetsRespond(success) ==
  /\ homeMounted
  /\ \E r \in homeNet :
       /\ r.kind = "fetch"
       /\ homeNet' = homeNet \ {r}
  /\ sets' = IF success THEN BackendList(MaxSets) ELSE sets
  /\ homeIsLoading' = FALSE
  /\ UNCHANGED <<homeMounted, editingSetHash, editingTitle, isDeleteMode,
                 deletingSetHash, backendSets>>
  /\ UNCHANGED <<appVars, uploadVars, dashVars, flowVars>>

\* A click on the title of a set.
handleEditStart(h) ==
  /\ HomeShown /\ Listed(sets, h) /\ ~isDeleteMode
  /\ editingSetHash' = h
  /\ editingTitle' = (CHOOSE x \in {sets[i] : i \in DOMAIN sets} : x.hash = h).title
  /\ UNCHANGED <<homeMounted, sets, homeIsLoading, isDeleteMode, deletingSetHash,
                 homeNet, backendSets>>
  /\ UNCHANGED <<appVars, uploadVars, dashVars, flowVars>>

\* Typing into the title field.
EditTitleChange(t) ==
  /\ HomeShown /\ Listed(sets, editingSetHash)
  /\ t \in TitleTexts /\ t # editingTitle
  /\ editingTitle' = t
  /\ UNCHANGED <<homeMounted, sets, homeIsLoading, editingSetHash, isDeleteMode,
                 deletingSetHash, homeNet, backendSets>>
  /\ UNCHANGED <<appVars, uploadVars, dashVars, flowVars>>

handleEditCancel ==
  /\ HomeShown /\ Listed(sets, editingSetHash)
  /\ editingSetHash' = 0
  /\ editingTitle' = ""
  /\ UNCHANGED <<homeMounted, sets, homeIsLoading, isDeleteMode, deletingSetHash,
                 homeNet, backendSets>>
  /\ UNCHANGED <<appVars, uploadVars, dashVars, flowVars>>

\* The Save button of the set that is edited: POST /api/update-set-title,
\* unless the title is blank or unchanged.
handleEditSave ==
  /\ HomeShown /\ Listed(sets, editingSetHash)
  /\ Cardinality(HomeWrites) < MaxHomeReq
  /\ LET h == editingSetHash
         currentSet == CHOOSE x \in {sets[i] : i \in DOMAIN sets} : x.hash = h
     IN IF Trim(editingTitle) = ""
        THEN UNCHANGED <<editingSetHash, editingTitle, homeNet>>
        ELSE IF currentSet.title = Trim(editingTitle)
        THEN /\ editingSetHash' = 0
             /\ editingTitle' = ""
             /\ UNCHANGED homeNet
        ELSE /\ homeNet' = homeNet \cup {HomeReq("title", h, editingTitle, sets)}
             /\ UNCHANGED <<editingSetHash, editingTitle>>
  /\ UNCHANGED <<homeMounted, sets, homeIsLoading, isDeleteMode, deletingSetHash,
                 backendSets>>
  /\ UNCHANGED <<appVars, uploadVars, dashVars, flowVars>>

\* The continuation of handleEditSave: the backend stored the title of a set
\* it has and returned the row, or the request failed.
TitleRespond(r, success) ==
  /\ homeMounted /\ r \in homeNet /\ r.kind = "title"
  /\ success => backendSets[r.hash] # "none"
  /\ homeNet' = homeNet \ {r}
  /\ IF success
     THEN /\ backendSets' = [backendSets EXCEPT ![r.hash] = r.title]
          /\ sets' = [i \in DOMAIN r.snap |->
                        IF r.snap[i].hash = r.hash THEN StudySet(r.hash, r.title)
                        ELSE r.snap[i]]
          /\ editingSetHash' = 0
          /\ editingTitle' = ""
     ELSE UNCHANGED <<backendSets, sets, editingSetHash, editingTitle>>
  /\ UNCHANGED <<homeMounted, homeIsLoading, isDeleteMode, deletingSetHash>>
  /\ UNCHANGED <<appVars, uploadVars, dashVars, flowVars>>

\* The Edit Sets / Cancel button.
handleDeleteModeToggle ==
  /\ HomeShown /\ Len(sets) > 0
  /\ isDeleteMode' = ~isDeleteMode
  /\ IF ~isDeleteMode
     THEN editingSetHash' = 0 /\ editingTitle' = ""
     ELSE UNCHANGED <<editingSetHash, editingTitle>>
  /\ UNCHANGED <<homeMounted, sets, homeIsLoading, deletingSetHash, homeNet,
                 backendSets>>
  /\ UNCHANGED <<appVars, uploadVars, dashVars, flowVars>>

\* The delete button of a set, in delete mode: POST /api/delete-question-set.
handleDeleteSet(h) ==
  /\ HomeShown /\ Listed(sets, h) /\ isDeleteMode /\ deletingSetHash # h
  /\ Cardinality(HomeWrites) < MaxHomeReq
  /\ deletingSetHash' = h
  /\ homeNet' = homeNet \cup {HomeReq("delete", h, "", sets)}
  /\ UNCHANGED <<homeMounted, sets, homeIsLoading, editingSetHash, editingTitle,
                 isDeleteMode, backendSets>>
  /\ UNCHANGED <<appVars, uploadVars, dashVars, flowVars>>

\* sets.filter(s => s.hash !== contentHash)
WithoutSet(ss, h) == SelectSeq(ss, LAMBDA x : x.hash # h)

\* The continuation of handleDeleteSet: the backend deleted the set, or the
\* request failed.
DeleteRespond(r, success) ==
  /\ homeMounted /\ r \in homeNet /\ r.kind = "delete"
  /\ homeNet' = homeNet \ {r}
  /\ IF success
     THEN /\ backendSets' = [backendSets EXCEPT ![r.hash] = "none"]
          /\ sets' = WithoutSet(r.snap, r.hash)
     ELSE UNCHANGED <<backendSets, sets>>
  /\ deletingSetHash' = 0
  /\ UNCHANGED <<homeMounted, homeIsLoading, editingSetHash, editingTitle,
                 isDeleteMode>>
  /\ UNCHANGED <<appVars, uploadVars, dashVars, flowVars>>

\* --------------------------------------------------------- specifications
\* App.jsx with the study session page; the requests of the quiz page stay
\* unanswered.
NextApp ==
  \/ \E r \in net, o \in {"authenticated", "unauthenticated", "status401", "error"},
        s \in Summaries : CheckAuthRespond(r, o, s)
  \/ LoginSubmit
  \/ \E r \in net, st \in {200, 401, 500}, a \in BOOLEAN, s \in Summaries :
        LoginRespond(r, st, a, s)
  \/ \E p \in Paths : Navigate(p)
  \/ EditInput
  \/ generateSummary
  \/ regenerateSummary
  \/ clearResults
  \/ goToQuiz
  \/ handleLogout
  \/ \E r \in net, o \in FetchOutcomes \cup {"abort"} : FetchRespond(r, o)
  \/ \E r \in net : StreamChunk(r)
  \/ \E r \in net : StreamEnd(r)
  \/ \E r \in net, st \in {200, 401, 500} : SaveRespond(r, st)
  \/ \E r \in net, st \in {200, 401, 500} : AxiosRespond(r, st)

SpecApp == InitApp /\ [][NextApp]_vars

\* The study session page hands the question count to the quiz page.  The
\* start is the study session page showing a generated summary, its mount
\* requests answered.
InitQuizLoad ==
  /\ IdleHome
  /\ IdleUpload /\ IdleDash /\ IdleFlow
  /\ isAuthenticated = TRUE
  /\ isLoading = FALSE
  /\ summary = "text"
  /\ path = "/study_session"
  /\ page = "Study_session"
  /\ ssNumQuestions = Null
  /\ storedCount = 0
  /\ isUploading = FALSE
  /\ hasInput = TRUE
  /\ numQuestions = 5
  /\ abortCurrent = 1
  /\ net = {}
  /\ questions = <<>>
  /\ quizIsLoading = TRUE
  /\ quizError = ""
  /\ isFetching = FALSE
  /\ quizFetches = {}

\* What the user types into the question count field (e.target.value).
InputTexts == {<<>>, <<"0">>, <<"1">>, <<"7">>, <<"2", "0">>, <<"2", "1">>,
               <<"-", "3">>, <<"1", ".", "5">>, <<"1", "e", "2">>, <<"a">>}

NextQuizLoad ==
  \/ \E t \in InputTexts : NumQuestionsChange(t)
  \/ goToQuiz
  \/ \E p \in Paths : Navigate(p)
  \/ HomeLoadSet
  \/ \E r \in net, st \in {200, 401, 500} : AxiosRespond(r, st)
  \/ \E f \in quizFetches, st \in {200, 401, 500}, b \in GetQuizBodies :
        QuizGetRespond(f, st, b)
  \/ \E f \in quizFetches,
        o \in {"questions", "exists", "failure", "status401", "status500"} :
        QuizGenerateRespond(f, o)

SpecQuizLoad == InitQuizLoad /\ [][NextQuizLoad]_vars

\* The upload page, mounted for an authenticated user; the backend may
\* already hold a task of an earlier visit.
IdleApp(p, pg) ==
  /\ isAuthenticated = TRUE
  /\ isLoading = FALSE
  /\ summary = ""
  /\ path = p
  /\ page = pg
  /\ ssNumQuestions = Null
  /\ storedCount = 0
  /\ isUploading = FALSE
  /\ hasInput = FALSE
  /\ numQuestions = 5
  /\ abortCurrent = 0
  /\ net = {}
  /\ questions = <<>>
  /\ quizIsLoading = TRUE
  /\ quizError = ""
  /\ isFetching = FALSE
  /\ quizFetches = {}

InitUpload ==
  /\ IdleHome
  /\ IdleDash /\ IdleFlow
  /\ IdleApp("/upload_pdfs", "Upload_pdfs")
  /\ uploadMounted = TRUE
  /\ processingJobs = <<>>
  /\ interval = FALSE
  /\ ticks = {}
  /\ tasksPending = TRUE
  /\ uploadPending = FALSE
  /\ clearPending = FALSE
  /\ \E st \in {"none", "PROCESSING"} :
        backendStatus = [k \in 1..MaxJobs |-> IF k = 1 THEN st ELSE "none"]

TickResponses ==
  UNION {[1..n -> {"skip", "failure", "error", "PENDING", "PROCESSING",
                   "SUCCESS", "FAILURE"}] : n \in 1..MaxJobs}

NextUpload ==
  \/ \E ok \in BOOLEAN : InitialTasksRespond(ok)
  \/ handleUploadFiles
  \/ \E ok \in BOOLEAN : UploadRespond(ok)
  \/ handleClearCompletedTasks
  \/ \E ok \in BOOLEAN : ClearRespond(ok)
  \/ TickStart
  \/ \E t \in ticks, resp \in TickResponses : TickDone(t, resp)
  \/ \E k \in 1..MaxJobs, st \in {"PROCESSING", "SUCCESS", "FAILURE"} : BackendStep(k, st)
  \/ UploadLeave

SpecUpload == InitUpload /\ [][NextUpload]_vars

\* Timers fire, responses arrive and the backend finishes its tasks; what the
\* user does (upload, clear, leave) is not forced.
FairUpload ==
  /\ WF_vars(TickStart)
  /\ \A i \in 1..MaxTicks :
        WF_vars(\E t \in ticks, resp \in TickResponses : t.id = i /\ TickDone(t, resp))
  /\ WF_vars(\E ok \in BOOLEAN : InitialTasksRespond(ok))
  /\ WF_vars(\E ok \in BOOLEAN : UploadRespond(ok))
  /\ WF_vars(\E k \in 1..MaxJobs, st \in {"PROCESSING", "SUCCESS", "FAILURE"} :
                BackendStep(k, st))

NextUploadLive ==
  \/ \E ok \in BOOLEAN : InitialTasksRespond(ok)
  \/ handleUploadFiles
  \/ \E ok \in BOOLEAN : UploadRespond(ok)
  \/ TickStart
  \/ \E t \in ticks, resp \in TickResponses : TickDone(t, resp)
  \/ \E k \in 1..MaxJobs, st \in {"PROCESSING", "SUCCESS", "FAILURE"} : BackendStep(k, st)
  \/ UploadLeave

SpecUploadLive == InitUpload /\ [][NextUploadLive]_vars /\ FairUpload

\* The dashboard, mounted for an authenticated user, with or without a
\* summary in the session.
InitDash ==
  /\ IdleHome
  /\ IdleApp("/", "Dashboard")
  /\ IdleUpload /\ IdleFlow
  /\ dashMounted = TRUE
  /\ dashSummary \in {<<>>, SessionSummary}
  /\ dashIsUploading = FALSE
  /\ dashHasInput = FALSE
  /\ dashAbort = 0
  /\ dashNet = {}
  /\ dashNext = 1

NextDash ==
  \/ DashEditInput
  \/ uploadPDFs
  \/ dashRegenerateSummary
  \/ cancelUpload
  \/ dashClearResults
  \/ \E r \in dashNet, o \in DashOutcomes \cup {"abort"} : DashRespond(r, o)

SpecDash == InitDash /\ [][NextDash]_vars

\* The quiz page after its questions were loaded, in quiz (USMLE) mode or
\* in flashcard mode.
InitQuiz ==
  /\ IdleHome
  /\ isAuthenticated = TRUE /\ isLoading = FALSE /\ summary = "text"
  /\ path = "/quiz" /\ page = "Quiz"
  /\ ssNumQuestions = Null /\ storedCount = 0
  /\ isUploading = FALSE /\ hasInput = FALSE /\ numQuestions = 5
  /\ abortCurrent = 0 /\ net = {}
  /\ questions = ExistingQuestions(MaxQuestions)
  /\ quizIsLoading = FALSE /\ quizError = ""
  /\ isFetching = FALSE /\ quizFetches = {}
  /\ IdleUpload /\ IdleDash
  /\ currentQuestion = 0
  /\ selectedAnswers = NoAnswers
  /\ submittedAnswers = NoneSubmitted
  /\ showResults = FALSE
  /\ isPreviewing = TRUE
  /\ isQuizMode \in BOOLEAN
  /\ hotkey = Captured(<<>>, 0, NoAnswers, NoneSubmitted)
  /\ answersSent = FALSE
  /\ isGeneratingMoreQuestions = FALSE
  /\ listNet = {}
  /\ saveTimers = {}
  /\ flowNet = {}

NextQuiz ==
  \/ \E id \in QIds, opt \in Options : handleAnswerSelect(id, opt)
  \/ \E opt \in Options : handleKeyboardAnswer(opt)
  \/ handleSubmitAnswer
  \/ handleStartQuiz
  \/ moveToNextQuestion
  \/ moveToPreviousQuestion
  \/ EnterKey
  \/ completeQuiz
  \/ \E t \in saveTimers : SaveTimerFires(t)
  \/ \E r \in flowNet : SaveAnswersRespond(r)
  \/ handleBackToPreview
  \/ resetQuiz
  \/ shuffleQuestions
  \/ handleStartStarredQuiz
  \/ \E r \in flowNet, ok \in BOOLEAN, qs \in QuestionLists : NewQuestionsRespond(r, ok, qs)

SpecQuiz == InitQuiz /\ [][NextQuiz]_vars

\* The Home page right after its mount, with the user's sets on the backend.
InitHome ==
  /\ IdleUpload /\ IdleDash /\ IdleFlow
  /\ IdleApp("/", "Home")
  /\ homeMounted = TRUE
  /\ sets = <<>>
  /\ homeIsLoading = TRUE
  /\ editingSetHash = 0
  /\ editingTitle = ""
  /\ isDeleteMode = FALSE
  /\ deletingSetHash = 0
  /\ homeNet = {HomeReq("fetch", 0, "", <<>>)}
  /\ backendSets = [h \in Hashes |-> "old"]

NextHome ==
  \/ \E ok \in BOOLEAN : FetchSetsRespond(ok)
  \/ \E h \in Hashes : handleEditStart(h)
  \/ \E t \in TitleTexts : EditTitleChange(t)
  \/ handleEditCancel
  \/ handleEditSave
  \/ \E r \in homeNet, ok \in BOOLEAN : TitleRespond(r, ok)
  \/ handleDeleteModeToggle
  \/ \E h \in Hashes : handleDeleteSet(h)
  \/ \E r \in homeNet, ok \in BOOLEAN : DeleteRespond(r, ok)

SpecHome == InitHome /\ [][NextHome]_vars

\* The quiz page after its questions were loaded: the screens and the list
\* of questions, without the answers.
InitQuizList ==
  /\ IdleHome
  /\ isAuthenticated = TRUE /\ isLoading = FALSE /\ summary = "text"
  /\ path = "/quiz" /\ page = "Quiz"
  /\ ssNumQuestions = Null /\ storedCount = 0
  /\ isUploading = FALSE /\ hasInput = FALSE /\ numQuestions = 5
  /\ abortCurrent = 0 /\ net = {}
  /\ \E n \in 1..MaxQuestions : questions = ExistingQuestions(n)
  /\ quizIsLoading = FALSE /\ quizError = ""
  /\ isFetching = FALSE /\ quizFetches = {}
  /\ IdleUpload /\ IdleDash
  /\ currentQuestion = 0
  /\ selectedAnswers = NoAnswers
  /\ submittedAnswers = NoneSubmitted
  /\ showResults = FALSE
  /\ isPreviewing = TRUE
  /\ isQuizMode \in BOOLEAN
  /\ hotkey = Captured(<<>>, 0, NoAnswers, NoneSubmitted)
  /\ answersSent = FALSE
  /\ isGeneratingMoreQuestions = FALSE
  /\ listNet = {}
  /\ saveTimers = {}
  /\ flowNet = {}

NextQuizList ==
  \/ handleStartQuiz
  \/ moveToNextQuestion
  \/ moveToPreviousQuestion
  \/ handleBackToPreview
  \/ resetQuiz
  \/ shuffleQuestions
  \/ handleStartStarredQuiz
  \/ \E r \in flowNet, ok \in BOOLEAN, qs \in QuestionLists : NewQuestionsRespond(r, ok, qs)
  \/ generateAdditionalQuestions
  \/ \E r \in listNet, ok \in BOOLEAN : MoreRespond(r, ok)
  \/ handleBulkStarQuestions
  \/ \E r \in listNet, ok \in BOOLEAN : StarRespond(r, ok)

SpecQuizList == InitQuizList /\ [][NextQuizList]_vars

\* ----------------------------------------------------------------- claims
\* The continuation of request r runs for an answer with status 401 while
\* the page that awaits it is mounted.
Answered401(r) ==
  \/ r.api \in FetchApis /\ r.phase = "sent" /\ r.live /\ FetchRespond(r, "status401")
  \/ r.api \in FetchApis /\ r.phase = "saving" /\ r.live /\ SaveRespond(r, 401)
  \/ r.api \in AxiosApis /\ page \in ProtectedPages /\ AxiosRespond(r, 401)

\* C1: whenever a request of the app (sent with axios or with fetch) is
\* answered with 401, the user is logged out and the login page is shown.
C1_Every401LogsOut ==
  [][\A r \in net : Answered401(r) => (~isAuthenticated' /\ page' = "Login")]_vars

\* C5: on the study session page at most one generate / regenerate request
\* is in flight.
C5_AtMostOneInFlight == Cardinality(InFlightSummaryRequests) <= 1

\* C5 (second half): while isUploading the Generate, Regenerate, Clear and
\* Create-quiz actions cannot be triggered.
C5_ButtonsDisabled ==
  (page = "Study_session" /\ isUploading) =>
     ~(GenerateEnabled \/ RegenerateEnabled \/ ClearEnabled \/ GoToQuizEnabled)

\* C9: a protected page is rendered only when the initial auth check has
\* completed and the user is authenticated; while the check runs no route
\* is rendered; afterwards an unauthenticated visit ends on /login (or on
\* the public /signup).
C9_ProtectedOnlyWhenAuthenticated ==
  /\ page \in ProtectedPages => (~isLoading /\ isAuthenticated)
  /\ isLoading => page = "Loading"
  /\ (~isLoading /\ ~isAuthenticated) =>
        (path \in {"/login", "/signup"} /\ page \in {"Login", "Signup"})

\* An unauthenticated user who asked for a protected path sees the login page.
C9_Witness ==
  /\ ~isLoading /\ ~isAuthenticated /\ page = "Login"
  /\ \E r \in net : r.api = "get-user-pdfs"
\* C6: a run of fetchQuiz sends generate-quiz only after its get-quiz request
\* returned no questions; when get-quiz returns questions they become the
\* question list and no generate-quiz request is sent.
C6_GetBeforeGenerate ==
  /\ [](\A f \in quizFetches :
          f.phase = "gen" => ~(f.got.success /\ f.got.count > 0))
  /\ [][\A f \in quizFetches, b \in GetQuizBodies :
          (f.live /\ f.phase = "get" /\ b.success /\ b.count > 0
             /\ QuizGetRespond(f, 200, b))
          => /\ questions' = ExistingQuestions(b.count)
             /\ \A g \in quizFetches' : g.phase = "gen" => g \in quizFetches]_vars

\* The quiz page shows the two questions get-quiz returned.
C6_Witness ==
  page = "Quiz" /\ questions = ExistingQuestions(2) /\ ~quizIsLoading /\ quizFetches = {}

\* C8: the numQuestions of a generate-quiz request that fetchQuiz sends is
\* the count the study session page stored last (5 when none is stored), and
\* it is an integer from 1 to 20.
C8_StoredCountSent ==
  [][\A f \in quizFetches' :
       (f.phase = "gen" /\ f \notin quizFetches)
       => /\ f.num \in 1..20
          /\ f.num = IF storedCount = 0 THEN 5 ELSE storedCount]_vars

\* A generate-quiz request carries the largest count the field accepts.
C8_Witness ==
  \E f \in quizFetches : f.phase = "gen" /\ f.num = 20 /\ storedCount = 20
\* C2: once a job of processingJobs is SUCCESS or FAILURE, no status request
\* is sent for it and, as long as it is in the list, its status stays.
C2_TerminalIsFinal ==
  [][/\ \A t \in ticks' \ ticks : \A i \in DOMAIN t.snap :
           ~Terminal(t.snap[i].status) =>
              \E k \in DOMAIN processingJobs :
                 /\ processingJobs[k].id = t.snap[i].id
                 /\ ~Terminal(processingJobs[k].status)
     /\ \A i \in DOMAIN processingJobs : \A k \in DOMAIN processingJobs' :
           (Terminal(processingJobs[i].status)
              /\ processingJobs'[k].id = processingJobs[i].id)
           => processingJobs'[k].status = processingJobs[i].status]_vars

\* C3: while the page is mounted and a job is not terminal the interval
\* runs, and the jobs of the list become all terminal (or the page is left).
C3_EveryJobEndsTerminal ==
  /\ []((uploadMounted /\ ~AllTerminal(processingJobs)) => interval)
  /\ (uploadMounted /\ ~AllTerminal(processingJobs))
        ~> (~uploadMounted \/ AllTerminal(processingJobs))

\* Two jobs of the list were polled to their terminal status.
C3_Witness ==
  /\ uploadMounted /\ Len(processingJobs) = 2 /\ ticks = {}
  /\ processingJobs[1].status = "SUCCESS" /\ processingJobs[2].status = "SUCCESS"
  /\ backendStatus[2] = "SUCCESS"
\* C4: after Cancel is clicked while a request is in flight, isUploading is
\* false, and a request that was in flight then never writes its summary.
C4_CancelStopsRequest ==
  [][/\ cancelUpload => ~dashIsUploading'
     /\ \A r \in dashNet :
          (r.cancelled /\ DashRespond(r, "success")) => dashSummary' = dashSummary]_vars
\* C7: the quiz page is in one phase: isPreviewing and showResults are never
\* both true.
C7_OnePhase == ~(isPreviewing /\ showResults)

\* C10: the selected option of a submitted question stays as it is while the
\* question stays submitted, and a question stops being submitted only when
\* the quiz state is reset (all answers cleared).
C10_SubmittedAnswerIsFixed ==
  [][\A id \in QIds :
       submittedAnswers[id] =>
          IF submittedAnswers'[id] THEN selectedAnswers'[id] = selectedAnswers[id]
          ELSE selectedAnswers' = NoAnswers /\ submittedAnswers' = NoneSubmitted]_vars

\* The first question is submitted with its option, and the second one got
\* an option afterwards: the callback of the number keys holds the older
\* selectedAnswers and the current submittedAnswers.
C10_Witness ==
  /\ submittedAnswers[1] /\ selectedAnswers[1] # 0
  /\ ~submittedAnswers[2] /\ selectedAnswers[2] # 0
  /\ hotkey.sel # selectedAnswers /\ hotkey.sub = submittedAnswers
\* C11: a submitted question has a selected option, whether it was submitted
\* with the Submit Answer button or with the enter key.
C11_SubmittedHasSelection ==
  \A id \in QIds : submittedAnswers[id] => selectedAnswers[id] # 0

\* Every question was submitted with its option, and the answering screen
\* is still shown.
C11_Witness ==
  /\ \A id \in QIds : submittedAnswers[id] /\ selectedAnswers[id] # 0
  /\ ViewAnswering
  /\ hotkey.sel = selectedAnswers
\* C12: the save-quiz-answers request sent 100 ms after a submission marks
\* the question that was just submitted as submitted.
C12_SaveCarriesSubmission ==
  \A r \in flowNet : r.kind = "save" => r.sub[r.id]
\* C13: when the results screen is shown in quiz mode and answers were
\* submitted, a save-quiz-answers request carrying all of them was sent
\* before.
C13_SavedBeforeResults ==
  (ViewResults /\ isQuizMode /\ \E id \in QIds : submittedAnswers[id]) => answersSent
\* C14: at most one quiz fetch (GET /api/get-quiz, then POST
\* /api/generate-quiz) started by the load effect is in flight.
C14_OneQuizFetch == Cardinality(quizFetches) <= 1
\* C15: a job of processingJobs stays in the list while the page is shown,
\* unless the answer to Clear Completed Tasks removes it: no tick that
\* finishes takes it out.
C15_JobStaysListed ==
  [][(uploadMounted' /\ ~(clearPending /\ ~clearPending'))
       => \A i \in DOMAIN processingJobs :
            \E j \in DOMAIN processingJobs' :
               processingJobs'[j].id = processingJobs[i].id]_vars
\* C16: a study set the backend deleted is not in the Home page's list of
\* sets, whatever delete or title request completes later.
C16_DeletedStaysGone ==
  \A i \in DOMAIN sets : backendSets[sets[i].hash] # "none"
\* C17: when the answering screen is rendered with a list of questions that
\* is not empty, currentQuestion is an index of the list.
C17_CurrentQuestionValid ==
  (~quizIsLoading /\ quizError = "" /\ ~showResults /\ ~isPreviewing
     /\ Len(questions) > 0)
    => currentQuestion \in 0..(Len(questions) - 1)
====
